---- MODULE Spec2Model ----
(***************************************************************************)
(* Model of the options dashboard of nous-hackathon.                       *)
(*                                                                         *)
(* The repository holds two variants of the options service:               *)
(*   - frontend/nous-main/src/services/optionsAPI.ts: fetchOptionsData     *)
(*     with a process-wide cache (5 minute expiry) in front of the live    *)
(*     request; on any failure it reports a toast and returns null;        *)
(*   - unnamed/part_000: fetchOptionsData without a cache, which falls     *)
(*     back to generateMockOptionsData on every failure.                   *)
(* Definitions of the second variant carry the suffix "2" where the two    *)
(* files use the same name.                                                *)
(*                                                                         *)
(* Units: wall-clock instants of the cache are milliseconds (Date.now()).  *)
(* The generators work in fixed point: instants in seconds (instant 0 is a  *)
(* Sunday, 00:00 UTC), calendar days as day numbers, prices and strikes in  *)
(* cents, unrounded prices in 1/10000 dollar, volatilities in 1/10000,      *)
(* rates in 1/1000 percent, time to expiry in 1/1000000 year, deltas in     *)
(* 1/10000. toFixed(n) rounds half up at the n-th decimal; products and    *)
(* quotients of the floating-point formulas are truncated to these units,  *)
(* which moves a price by a few cents at most and keeps every comparison,  *)
(* clamp and rounding of the source.                                       *)
(***************************************************************************)
EXTENDS Integers, Sequences, FiniteSets, TLC

VARIABLES
    build,      \* which services/optionsAPI module the application is built with
    cache,      \* optionsAPI.ts:9  cache: key -> [data, timestamp] or NoEntry
    clock,      \* Date.now(), milliseconds
    reqs,       \* the calls of fetchOptionsData: position, locals, result, log
    nextSnap,   \* identity of the next chain object to be allocated
    page,       \* pages/Options.tsx and OptionsInputPanel.tsx: component state
    genIn,      \* what one run of the chain generator reads: symbol, instant,
                \* time zone, the draws of Math.random()
    chain,      \* the OptionChain that run returned, or NoChain
    view        \* what the page shows of chain: the filters of Options.tsx,
                \* the sortConfig of OptionsTable, and the rows they yield

vars == <<build, cache, clock, reqs, nextSnap, page, genIn, chain, view>>

(***************************************************************************)
(* Bounds of the model                                                     *)
(***************************************************************************)
MaxReq == 2      \* calls of fetchOptionsData by concurrent callers
MaxLoads == 3    \* loads started by the page

(***************************************************************************)
(* Strings. A symbol is a sequence of one-character strings, so that        *)
(* toUpperCase() and trim() are computed and not assumed.                   *)
(***************************************************************************)
LowerLetters == <<"a","b","c","d","e","f","g","h","i","j","k","l","m",
                  "n","o","p","q","r","s","t","u","v","w","x","y","z">>
UpperLetters == <<"A","B","C","D","E","F","G","H","I","J","K","L","M",
                  "N","O","P","Q","R","S","T","U","V","W","X","Y","Z">>

ToUpperChar(c) ==
    IF \E i \in 1..Len(LowerLetters) : LowerLetters[i] = c
    THEN UpperLetters[CHOOSE i \in 1..Len(LowerLetters) : LowerLetters[i] = c]
    ELSE c

\* String.prototype.toUpperCase
ToUpperCase(s) == [i \in 1..Len(s) |-> ToUpperChar(s[i])]

RECURSIVE TrimStart(_)
TrimStart(s) == IF s # <<>> /\ Head(s) = " " THEN TrimStart(Tail(s)) ELSE s

RECURSIVE TrimEnd(_)
TrimEnd(s) ==
    IF s # <<>> /\ s[Len(s)] = " " THEN TrimEnd(SubSeq(s, 1, Len(s) - 1)) ELSE s

\* String.prototype.trim
Trim(s) == TrimEnd(TrimStart(s))

(***************************************************************************)
(* unnamed/part_000: the static price table, in cents                      *)
(***************************************************************************)
PriceSymbols ==
    << <<"A","A","P","L">>, <<"T","S","L","A">>, <<"M","S","F","T">>,
       <<"A","M","Z","N">>, <<"N","V","D","A">>, <<"G","O","O","G","L">>,
       <<"S","P","Y">>, <<"Q","Q","Q">>, <<"B","A","C">>, <<"W","M","T">>,
       <<"M","C","D">>, <<"D","I","S">>, <<"N","K","E">>, <<"K","O">>,
       <<"V">>, <<"M","E","T","A">> >>
PriceCents ==
    << 17523, 25147, 33242, 17451, 78592, 14263, 49876, 43215, 3789, 6247,
       27635, 10583, 9325, 6133, 26758, 47612 >>

\* prices[symbol]: the table entry, 0 standing for undefined
PricesLookup(symbol) ==
    IF \E i \in 1..Len(PriceSymbols) : PriceSymbols[i] = symbol
    THEN PriceCents[CHOOSE i \in 1..Len(PriceSymbols) : PriceSymbols[i] = symbol]
    ELSE 0

\* Math.random() is a draw u of 0..RandRes-1, standing for u / RandRes
RandRes == 16

\* getStockPrice(symbol), with u the draw of Math.random(): cents
getStockPrice(symbol, u) ==
    IF PricesLookup(symbol) # 0 THEN PricesLookup(symbol)
    ELSE 15000 + (u * 10000) \div RandRes

(***************************************************************************)
(* services/optionsAPI.ts: the cache                                       *)
(***************************************************************************)
CACHE_EXPIRY == 5 * 60 * 1000

NoEntry == [none |-> TRUE]
Null == [null |-> TRUE]

\* the symbols concurrent callers pass to the service
Symbols == { <<"V">>, <<"v">> }

\* the texts a user types into the ticker input
Typed == { <<"v">>, <<"a","a","p","l">>, <<" ","V">>, <<" ">> }

DefaultTicker == <<"A","A","P","L">>

CacheKey(symbol) == <<"options_">> \o ToUpperCase(symbol)

CacheKeys == { CacheKey(ToUpperCase(Trim(s))) : s \in Symbols \cup Typed \cup {DefaultTicker} }

IsFresh_Inverted(entry, now) ==
    entry # NoEntry /\ now - entry.timestamp > CACHE_EXPIRY

\* optionsAPI.ts:18: the entry exists and is younger than the expiry
IsFresh(entry, now) ==
    entry # NoEntry /\ now - entry.timestamp < CACHE_EXPIRY

Req == DOMAIN reqs

IdleReq ==
    [pc |-> "idle", symbol |-> <<>>, typed |-> <<>>, now |-> 0, key |-> <<>>,
     seen |-> NoEntry, result |-> Null, net |-> 0, synth |-> 0,
     toasts |-> <<>>, warns |-> 0, outcome |-> "none", overlap |-> {},
     stored |-> FALSE]

InFlight == { q \in Req : reqs[q].pc \in {"fetch", "json"} }

\* the next call is the lowest-numbered one not yet made
IsNextCall(r) == reqs[r].pc = "idle" /\ \A q \in Req : q < r => reqs[q].pc # "idle"

\* processOptionsData(data, symbol) of services/optionsAPI.ts: the identity of
\* the chain object it returns (symbol, lastUpdate; basePrice is the fixed 150)
processOptionsData_ref(symbol) ==
    [id |-> nextSnap, symbol |-> symbol, lastUpdate |-> clock, refPrice |-> 15000]

\* generateMockOptionsData(symbol) of part_000: the identity of the chain
\* object it returns, u being the draw of getStockPrice
generateMockOptionsData_ref(symbol, u) ==
    [id |-> nextSnap, symbol |-> symbol, lastUpdate |-> clock,
     refPrice |-> getStockPrice(symbol, u)]

\* the draws of Math.random() in getStockPrice the request model distinguishes
PriceDraws == {0, RandRes \div 2}

NoPage ==
    [mounted |-> FALSE, tickerInput |-> DefaultTicker, ticker |-> DefaultTicker,
     loading |-> FALSE, optionChain |-> Null, pending |-> 0]

InitCommon ==
    /\ build \in {"cached", "synth"}
    /\ cache = [k \in CacheKeys |-> NoEntry]
    /\ clock = 0
    /\ nextSnap = 1
    /\ page = NoPage

NoGen == [symbol |-> <<>>, uPrice |-> 0, now |-> 0, tz |-> 0, seed |-> 0]
NoChain == [none |-> TRUE]
NoView == [none |-> TRUE]

Init ==
    /\ InitCommon
    /\ reqs = [r \in 1..MaxReq |-> IdleReq]
    /\ genIn = NoGen
    /\ chain = NoChain
    /\ view = NoView

\* the instants at which the model lets something happen: the start, the last
\* millisecond before an entry stored at the start expires, and the
\* millisecond at which it expires
Instants == {0, CACHE_EXPIRY - 1, CACHE_EXPIRY}

\* time passes between two turns of the event loop
Tick ==
    /\ \E t \in Instants : t > clock /\ clock' = t
    /\ UNCHANGED <<view, genIn, chain, build, cache, reqs, nextSnap, page>>

(***************************************************************************)
(* services/optionsAPI.ts: fetchOptionsData with the cache                 *)
(***************************************************************************)
\* optionsAPI.ts:12-26: the synchronous part, up to "await fetch(url)"
fetchOptionsData_start(r, symbol, typed) ==
    LET key == CacheKey(symbol)
        started == [reqs[r] EXCEPT !.symbol = symbol, !.typed = typed,
                       !.now = clock, !.key = key, !.seen = cache[key],
                       !.overlap = InFlight]
    IN  IF IsFresh(cache[key], clock)
        THEN [started EXCEPT !.pc = "done", !.outcome = "hit",
                             !.result = cache[key].data]
        ELSE [started EXCEPT !.pc = "fetch", !.net = 1]

fetchOptionsData_catch_Evict(r, outcome) ==
    /\ reqs' = [reqs EXCEPT ![r] =
            [@ EXCEPT !.pc = "done", !.outcome = outcome, !.result = Null,
                      !.toasts = Append(@, "error: Failed to fetch options data")]]
    /\ cache' = [cache EXCEPT ![reqs[r].key] = NoEntry]
    /\ UNCHANGED nextSnap

\* optionsAPI.ts:55-59: the catch block
fetchOptionsData_catch(r, outcome) ==
    /\ reqs' = [reqs EXCEPT ![r] =
            [@ EXCEPT !.pc = "done", !.outcome = outcome, !.result = Null,
                      !.toasts = Append(@, "error: Failed to fetch options data")]]
    /\ UNCHANGED <<cache, nextSnap>>

\* optionsAPI.ts:26-32: fetch settles
fetchOptionsData_afterFetch(r) ==
    /\ build = "cached"
    /\ reqs[r].pc = "fetch"
    /\ \E response \in {"reject", "notOk", "ok"} :
          CASE response = "reject" -> fetchOptionsData_catch(r, "transport")
            [] response = "notOk"  -> fetchOptionsData_catch(r, "httpError")
            [] OTHER -> /\ reqs' = [reqs EXCEPT ![r].pc = "json"]
                        /\ UNCHANGED <<cache, nextSnap>>
    /\ UNCHANGED <<view, genIn, chain, build, clock, page>>

\* optionsAPI.ts:32-54: response.json() settles
fetchOptionsData_afterJson(r) ==
    /\ build = "cached"
    /\ reqs[r].pc = "json"
    /\ \E body \in {"reject", "errorMessage", "note", "data"} :
          CASE body = "reject" -> fetchOptionsData_catch(r, "transport")
            [] body = "errorMessage" -> fetchOptionsData_catch(r, "errorPayload")
            [] body = "note" ->
                  /\ reqs' = [reqs EXCEPT ![r] =
                        [@ EXCEPT !.pc = "done", !.outcome = "rateLimit",
                                  !.result = Null,
                                  !.toasts = Append(@,
                                     "warning: API call frequency limit reached")]]
                  /\ UNCHANGED <<cache, nextSnap>>
            [] OTHER ->
                  LET processedData == processOptionsData_ref(reqs[r].symbol)
                  IN  /\ cache' = [cache EXCEPT ![reqs[r].key] =
                                      [data |-> processedData,
                                       timestamp |-> reqs[r].now]]
                      /\ nextSnap' = nextSnap + 1
                      /\ reqs' = [reqs EXCEPT ![r] =
                            [@ EXCEPT !.pc = "done", !.outcome = "success",
                                      !.result = processedData,
                                      !.synth = 1, !.stored = TRUE]]
    /\ UNCHANGED <<view, genIn, chain, build, clock, page>>

(***************************************************************************)
(* unnamed/part_000: fetchOptionsData without a cache                      *)
(***************************************************************************)
\* part_000:8-12: the synchronous part, up to "await fetch(apiUrl)"
fetchOptionsData2_start(r, symbol, typed) ==
    [reqs[r] EXCEPT !.pc = "fetch", !.symbol = symbol, !.typed = typed,
                    !.now = clock, !.net = 1, !.overlap = InFlight]

\* part_000:18, 22-23, 34, 42: every path ends in generateMockOptionsData
fetchOptionsData2_finish(r, outcome, toast, warn) ==
    /\ \E u \in PriceDraws :
          reqs' = [reqs EXCEPT ![r] =
              [@ EXCEPT !.pc = "done",
                        !.outcome = IF @ = "httpError" THEN @ ELSE outcome,
                        !.result = generateMockOptionsData_ref(reqs[r].symbol, u),
                        !.synth = @ + 1,
                        !.toasts = IF toast THEN
                                      Append(@, "destructive: Error fetching options data")
                                   ELSE @,
                        !.warns = @ + warn]]
    /\ nextSnap' = nextSnap + 1
    /\ UNCHANGED cache

\* part_000:12, 25-35: fetch settles; the status of the response is not read
fetchOptionsData2_afterFetch(r) ==
    /\ build = "synth"
    /\ reqs[r].pc = "fetch"
    /\ \E response \in {"reject", "notOk", "ok"} :
          CASE response = "reject" ->
                  fetchOptionsData2_finish(r, "transport", TRUE, 0)
            [] response = "notOk" ->
                  /\ reqs' = [reqs EXCEPT ![r].pc = "json",
                                          ![r].outcome = "httpError"]
                  /\ UNCHANGED <<cache, nextSnap>>
            [] OTHER -> /\ reqs' = [reqs EXCEPT ![r].pc = "json"]
                        /\ UNCHANGED <<cache, nextSnap>>
    /\ UNCHANGED <<view, genIn, chain, build, clock, page>>

\* the bodies a response can carry: an error status carries no option data
Bodies2(r) ==
    IF reqs[r].outcome = "httpError" THEN {"reject", "errorMessage"}
    ELSE {"reject", "errorMessage", "note", "empty", "data"}

\* part_000:13-35: response.json() settles
fetchOptionsData2_afterJson(r) ==
    /\ build = "synth"
    /\ reqs[r].pc = "json"
    /\ \E body \in Bodies2(r) :
          CASE body = "reject" -> fetchOptionsData2_finish(r, "transport", TRUE, 0)
            [] body = "errorMessage" ->
                  fetchOptionsData2_finish(r, "errorPayload", FALSE, 1)
            [] body = "note" -> fetchOptionsData2_finish(r, "rateLimit", FALSE, 1)
            [] body = "empty" -> fetchOptionsData2_finish(r, "empty", FALSE, 1)
            [] OTHER -> fetchOptionsData2_finish(r, "success", FALSE, 0)
    /\ UNCHANGED <<view, genIn, chain, build, clock, page>>

\* the call of the service the application is built with
fetchOptionsData(r, symbol, typed) ==
    IF build = "cached" THEN fetchOptionsData_start(r, symbol, typed)
    ELSE fetchOptionsData2_start(r, symbol, typed)

\* a caller of the exported fetchOptionsData
Call(r, symbol) ==
    /\ IsNextCall(r)
    /\ reqs' = [reqs EXCEPT ![r] = fetchOptionsData(r, symbol, symbol)]
    /\ UNCHANGED <<view, genIn, chain, build, cache, clock, nextSnap, page>>

(***************************************************************************)
(* pages/Options.tsx and components/options/OptionsInputPanel.tsx          *)
(***************************************************************************)
InitPage ==
    /\ InitCommon
    /\ reqs = [r \in 1..MaxLoads |-> IdleReq]
    /\ genIn = NoGen
    /\ chain = NoChain
    /\ view = NoView

NormalizeTicker_NoUpper(ticker) == Trim(ticker)

\* OptionsInputPanel.tsx:45: ticker.trim().toUpperCase()
NormalizeTicker(ticker) == ToUpperCase(Trim(ticker))

\* Options.tsx:32-35: loadOptionsData up to "await fetchOptionsData(symbol)"
loadOptionsData(symbol, typed, newPage) ==
    \E r \in Req :
        /\ IsNextCall(r)
        /\ reqs' = [reqs EXCEPT ![r] = fetchOptionsData(r, symbol, typed)]
        /\ page' = [newPage EXCEPT !.loading = TRUE, !.pending = r]

\* Options.tsx:25-29: the effect of the first render
Mount ==
    /\ ~page.mounted
    /\ page.ticker # <<>>
    /\ loadOptionsData(page.ticker, page.ticker, [page EXCEPT !.mounted = TRUE])
    /\ UNCHANGED <<view, genIn, chain, build, cache, clock, nextSnap>>

\* OptionsInputPanel.tsx:96, 100: onChange of the ticker input, disabled
\* while loading
setTicker(text) ==
    /\ page.mounted
    /\ ~page.loading
    /\ text # page.tickerInput
    /\ page' = [page EXCEPT !.tickerInput = text]
    /\ UNCHANGED <<view, genIn, chain, build, cache, clock, reqs, nextSnap>>

handleTickerSearch_NoLoad ==
    /\ page.mounted
    /\ ~page.loading
    /\ page.tickerInput # <<>>
    /\ Trim(page.tickerInput) # <<>>
    /\ page' = [page EXCEPT !.ticker = NormalizeTicker(page.tickerInput)]
    /\ UNCHANGED <<view, genIn, chain, build, cache, clock, nextSnap, reqs>>

\* OptionsInputPanel.tsx:43-47 with Options.tsx:45-47 and the effect of
\* Options.tsx:25-29, which runs when filters.ticker has changed
handleTickerSearch ==
    /\ page.mounted
    /\ ~page.loading
    /\ page.tickerInput # <<>>
    /\ Trim(page.tickerInput) # <<>>
    /\ LET newTicker == NormalizeTicker(page.tickerInput)
       IN  IF newTicker # page.ticker
           THEN loadOptionsData(newTicker, page.tickerInput,
                                [page EXCEPT !.ticker = newTicker])
           ELSE UNCHANGED <<reqs, page>>
    /\ UNCHANGED <<view, genIn, chain, build, cache, clock, nextSnap>>

\* Options.tsx:50-54, the button of OptionsInputPanel.tsx:106
handleRefresh ==
    /\ page.mounted
    /\ ~page.loading
    /\ page.ticker # <<>>
    /\ loadOptionsData(page.ticker, page.ticker, page)
    /\ UNCHANGED <<view, genIn, chain, build, cache, clock, nextSnap>>

loadOptionsData_settle_StillLoading ==
    /\ page.pending # 0
    /\ reqs[page.pending].pc = "done"
    /\ page' = [page EXCEPT !.optionChain = reqs[page.pending].result,
                            !.pending = 0]
    /\ UNCHANGED <<view, genIn, chain, build, cache, clock, reqs, nextSnap>>

\* Options.tsx:35-41: the awaited call settles
loadOptionsData_settle ==
    /\ page.pending # 0
    /\ reqs[page.pending].pc = "done"
    /\ page' = [page EXCEPT !.optionChain = reqs[page.pending].result,
                            !.loading = FALSE, !.pending = 0]
    /\ UNCHANGED <<view, genIn, chain, build, cache, clock, reqs, nextSnap>>

\* the page is observed within one expiry period: its clock stands still
NextPage ==
    \/ Mount
    \/ \E text \in Typed : setTicker(text)
    \/ handleTickerSearch
    \/ handleRefresh
    \/ loadOptionsData_settle
    \/ \E r \in Req : fetchOptionsData_afterFetch(r)
    \/ \E r \in Req : fetchOptionsData_afterJson(r)
    \/ \E r \in Req : fetchOptionsData2_afterFetch(r)
    \/ \E r \in Req : fetchOptionsData2_afterJson(r)

SpecPage == InitPage /\ [][NextPage]_vars

\* every request settles (fetch and response.json() are promises of the
\* browser that settle), and the continuation of an awaited call that has
\* settled is run by the event loop
FairPage ==
    /\ WF_vars(loadOptionsData_settle)
    /\ \A r \in 1..MaxLoads :
          /\ WF_vars(fetchOptionsData_afterFetch(r))
          /\ WF_vars(fetchOptionsData_afterJson(r))
          /\ WF_vars(fetchOptionsData2_afterFetch(r))
          /\ WF_vars(fetchOptionsData2_afterJson(r))

SpecPageLive == SpecPage /\ FairPage

Next ==
    \/ Tick
    \/ \E r \in Req, s \in Symbols : Call(r, s)
    \/ \E r \in Req : fetchOptionsData_afterFetch(r)
    \/ \E r \in Req : fetchOptionsData_afterJson(r)
    \/ \E r \in Req : fetchOptionsData2_afterFetch(r)
    \/ \E r \in Req : fetchOptionsData2_afterJson(r)

Spec == Init /\ [][Next]_vars

(***************************************************************************)
(* Arithmetic of the generators                                            *)
(***************************************************************************)
Abs(x) == IF x < 0 THEN -x ELSE x
Min(a, b) == IF a < b THEN a ELSE b
Max(a, b) == IF a > b THEN a ELSE b

\* Math.round(x / d) for d > 0: the nearest integer, halves upwards
RoundDiv(x, d) == (x + d \div 2) \div d

\* Number.prototype.toFixed(2) of an amount in 1/10000 dollar: cents
ToFixed2(x) == IF x >= 0 THEN (x + 50) \div 100 ELSE -((50 - x) \div 100)

\* Math.sqrt of a time in 1/1000000 year, in 1/1000 (truncated)
Sqrt(t) == CHOOSE r \in 0..1000 : r * r <= t /\ t < (r + 1) * (r + 1)

\* the NaN of JavaScript arithmetic; every comparison with it is false
NaN == 0 - 1073741824
IsNaN(x) == x = NaN

SecondsPerDay == 24 * 60 * 60

\* Date.prototype.getDay(), in the local time zone (tz seconds east of UTC)
getDay(t, tz) == ((t + tz) \div SecondsPerDay) % 7

\* toISOString().split('T')[0]: the UTC calendar day of an instant
IsoDate(t) == t \div SecondsPerDay

\* new Date("YYYY-MM-DD").getTime(): midnight UTC of that day
DateOf(day) == day * SecondsPerDay

\* the n-th value of Math.random() a run draws at site k of the contract
\* (side, dateIndex, strikeIndex): a fixed pseudo-random sequence per seed
Rand(seed, side, dateIndex, strikeIndex, k) ==
    (seed * 5 + side * 3 + dateIndex * (k + 1) + strikeIndex * (2 * k + 1) + k * k)
        % RandRes

(***************************************************************************)
(* unnamed/part_000: the grid                                              *)
(***************************************************************************)
\* part_000:51: getNextFridays(6)
WEEKS == 6

\* part_000:119-131: the instants getNextFridays(count) returns at instant now
getNextFridays(count, now, tz) ==
    LET first == CHOOSE k \in 1..7 : getDay(now + k * SecondsPerDay, tz) = 5
    IN  [i \in 1..count |-> now + (first + 7 * (i - 1)) * SecondsPerDay]

getStrikeIncrement_Doubled(price) ==
    IF price < 2000 THEN 100
    ELSE IF price < 5000 THEN 200
    ELSE IF price < 10000 THEN 500
    ELSE IF price < 20000 THEN 1000
    ELSE IF price < 50000 THEN 2000
    ELSE 5000

\* part_000:85-92, prices and increments in cents
getStrikeIncrement(price) ==
    IF price < 2000 THEN 50
    ELSE IF price < 5000 THEN 100
    ELSE IF price < 10000 THEN 250
    ELSE IF price < 20000 THEN 500
    ELSE IF price < 50000 THEN 1000
    ELSE 2500

\* part_000:55-56
minStrikeOf(currentPrice) == Max(100, RoundDiv(currentPrice * 7, 10))
maxStrikeOf(currentPrice) == RoundDiv(currentPrice * 13, 10)

StrikeCount_OnePast(minStrike, maxStrike, strikeStep) ==
    IF maxStrike + strikeStep < minStrike THEN 0
    ELSE (maxStrike + strikeStep - minStrike) \div strikeStep + 1

\* part_000:63: the number of turns of "for (strike = minStrike;
\* strike <= maxStrike; strike += strikeStep)"
StrikeCount(minStrike, maxStrike, strikeStep) ==
    IF maxStrike < minStrike THEN 0
    ELSE (maxStrike - minStrike) \div strikeStep + 1

\* part_000:62-66
StrikesOf(currentPrice) ==
    LET minStrike == minStrikeOf(currentPrice)
        strikeStep == getStrikeIncrement(currentPrice)
    IN  [i \in 1..StrikeCount(minStrike, maxStrikeOf(currentPrice), strikeStep)
            |-> minStrike + (i - 1) * strikeStep]

(***************************************************************************)
(* unnamed/part_000: one contract                                          *)
(***************************************************************************)
SideNo(type) == IF type = "call" THEN 0 ELSE 1

\* part_000:145-148: parseFloat(((expiry - now) / one year).toFixed(6)), for
\* the expiry day expiryDate and the instant now in seconds; a year has
\* 31536000 seconds, and 1000000 / 31536000 = 250 / 7884
timeToExpiryOf(expiryDate, now) ==
    RoundDiv((DateOf(expiryDate) - now) * 250, 7884)

\* part_000:151-152: the rate in 1/1000 percent, u the draw
riskFreeRateOf(dateIndex, u) ==
    4200 + dateIndex * 130 + (180 * u) \div RandRes - 90

\* part_000:161: |1 - strike / currentPrice| in 1/10000
moneynessOf(strike, currentPrice) ==
    Abs(10000 - (strike * 10000) \div currentPrice)

\* part_000:164-165
impliedVolatilityOf(dateIndex, moneyness, u) ==
    LET baseIv == 2500 + dateIndex * 300 + (moneyness * 2) \div 10
    IN  RoundDiv(baseIv * (800 + (400 * u) \div RandRes), 1000)

\* part_000:255: volatility * sqrt(timeToExpiry) * spot * (0.4 + random * 0.1)
timeValueOf(spot, sqrtT, volatility, u) ==
    (((((volatility * sqrtT) \div 100) * spot) \div 1000)
        * (400 + (100 * u) \div RandRes)) \div 1000

\* part_000:256: exp(-riskFreeRate * timeToExpiry) in 1/1000000, by its
\* series up to the square term (the exponent is below 0.01)
interestFactorOf(riskFreeRate, timeToExpiry) ==
    LET x == (riskFreeRate * timeToExpiry) \div 100000
    IN  1000000 - x + (x * x) \div 2000000

\* part_000:245-267: the price in 1/10000 dollar; uTime and uOtm are the two
\* draws (the second one is made for an out-of-the-money contract only)
calculateRealisticOptionPrice(spot, strike, timeToExpiry, sqrtT, volatility, riskFreeRate, type, uTime, uOtm) ==
    LET moneyness == Abs(spot - strike)
        timeValue == timeValueOf(spot, sqrtT, volatility, uTime)
        interestFactor == interestFactorOf(riskFreeRate, timeToExpiry)
        inMoney == IF type = "call" THEN spot > strike ELSE spot < strike
    IN  IF inMoney
        THEN (moneyness * ((10000000 - interestFactor) \div 1000)) \div 100
                 + timeValue
        ELSE (timeValue * (1000 + (100 * uOtm) \div RandRes)) \div 1000

\* part_000:189
spreadOf(price, u) == ((price \div 10) * (300 + (400 * u) \div RandRes)) \div 1000

bidOf_AboveAsk(price, spread) == ToFixed2(price + spread)

\* part_000:190-191, in cents
bidOf(price, spread) == ToFixed2(price - spread \div 2)
askOf(price, spread) == ToFixed2(price + spread \div 2)

\* part_000:280,283,289,292: the quotient distance / (spot * volatility *
\* sqrt(timeToExpiry) * 4) in 1/10000.  A quotient of 1 or more is reported
\* as 10000 (every caller clamps it away), a zero divisor gives Infinity
\* (reported as 10000 too) for a positive distance and NaN for 0 / 0.
deltaQuotient(distance, spot, volatility, sqrtT) ==
    LET den == ((((volatility * sqrtT) \div 100) * spot) \div 1000) * 4
        num == distance * 100
    IN  IF den = 0 THEN (IF distance = 0 THEN NaN ELSE 10000)
        ELSE IF num >= den THEN 10000
        ELSE ((num * 100) \div den) * 100 + (((num * 100) % den) * 100) \div den

\* Math.min and Math.max, which return NaN when an argument is NaN
MathMin(a, b) == IF IsNaN(a) \/ IsNaN(b) THEN NaN ELSE Min(a, b)
MathMax(a, b) == IF IsNaN(a) \/ IsNaN(b) THEN NaN ELSE Max(a, b)
Plus(a, b) == IF IsNaN(a) \/ IsNaN(b) THEN NaN ELSE a + b
Minus(a, b) == IF IsNaN(a) \/ IsNaN(b) THEN NaN ELSE a - b

\* part_000:270-296: delta in 1/10000, u the draw
calculateRealisticDelta(spot, strike, type, sqrtT, volatility, u) ==
    LET noise == (500 * u) \div RandRes - 250
        q == deltaQuotient(Abs(spot - strike), spot, volatility, sqrtT)
    IN  IF type = "call"
        THEN IF spot > strike
             THEN MathMin(9900, MathMax(5000, Plus(Plus(5000, q), noise)))
             ELSE MathMin(5000, MathMax(100, Plus(Minus(5000, q), noise)))
        ELSE IF spot > strike
             THEN MathMax(-9900, MathMin(-5000, Minus(Minus(-5000, q), noise)))
             ELSE MathMax(-5000, MathMin(-100, Minus(Plus(-5000, q), noise)))

\* Infinity, the quotient of a nonzero number and 0
Infinity == 1073741824 - 1

\* toFixed of a quotient x / d (d > 0), which rounds halves away from zero
RoundSym(x, d) == IF x >= 0 THEN RoundDiv(x, d) ELSE 0 - RoundDiv(0 - x, d)

\* part_000:203: delta * (1 - delta) / (currentPrice * impliedVolatility *
\* sqrt(timeToExpiry)) in 1/10000, delta being the rounded delta
gammaOf(delta, spot, volatility, sqrtT) ==
    LET den == (((volatility * sqrtT) \div 100) * spot) \div 1000
        num == delta * (10000 - delta)
    IN  IF IsNaN(delta) THEN NaN
        ELSE IF den = 0
             THEN (IF num > 0 THEN Infinity
                   ELSE IF num < 0 THEN 0 - Infinity ELSE NaN)
        ELSE RoundSym(num, den)

\* part_000:205: currentPrice * sqrt(timeToExpiry) * 0.01 in 1/10000
vegaOf(spot, sqrtT) == RoundDiv(spot * sqrtT, 1000)

\* part_000:169-172, in 1/1000 percent
volatilityDifferenceValues ==
    << 0 - 6492, 0 - 5782, 0 - 4326, 0 - 3981, 0 - 3254, 0 - 2813, 0 - 1937,
       0 - 1528, 0 - 871, 0 - 433, 0 - 125,
       182, 347, 813, 1294, 1752, 2168, 2553, 3114, 3678, 4285, 5146, 5973, 6421 >>

\* part_000:174-175
volatilityDifferenceOf(u) ==
    volatilityDifferenceValues[((Len(volatilityDifferenceValues) * u) \div RandRes) + 1]

\* part_000:198: moneyness in 1/10000
volumeOf(moneyness, u) ==
    ((1000 * u) \div RandRes) * (IF moneyness < 500 THEN 10 ELSE 1) + 50

\* part_000:199
openInterestOf(moneyness, u) ==
    ((5000 * u) \div RandRes) * (IF moneyness < 500 THEN 5 ELSE 1) + 200

\* part_000:224: Math.random() > 0.8
isRecommendedOf(u) == 10 * u > 8 * RandRes

\* part_000:225, in 1/1000
confidenceOf(u) == RoundDiv(300 * u, RandRes) + 700

inTheMoneyOf_OrEqual(type, currentPrice, strike) ==
    IF type = "call" THEN currentPrice >= strike ELSE currentPrice <= strike

\* part_000:156-158
inTheMoneyOf(type, currentPrice, strike) ==
    IF type = "call" THEN currentPrice > strike ELSE currentPrice < strike

\* part_000:154-237: the contract of strike strikes[strikeIndex + 1] on the
\* expiry of index dateIndex; timeToExpiry, sqrtT and riskFreeRate are the
\* values computed once for that expiry
MockContract(expiryDate, dateIndex, strike, strikeIndex, type, currentPrice, timeToExpiry, sqrtT, riskFreeRate, seed) ==
    LET u(k) == Rand(seed, SideNo(type), dateIndex, strikeIndex, k)
        inTheMoney == inTheMoneyOf(type, currentPrice, strike)
        moneyness == moneynessOf(strike, currentPrice)
        impliedVolatility == impliedVolatilityOf(dateIndex, moneyness, u(1))
        price == calculateRealisticOptionPrice(currentPrice, strike,
                     timeToExpiry, sqrtT, impliedVolatility, riskFreeRate,
                     type, u(3), u(4))
        spread == spreadOf(price, u(5))
        volatilityDifference == volatilityDifferenceOf(u(2))
        delta == calculateRealisticDelta(currentPrice, strike, type, sqrtT,
                                         impliedVolatility, u(9))
    IN  [ strike |-> strike,
          expiryDate |-> expiryDate,
          lastPrice |-> ToFixed2(price),
          bid |-> bidOf(price, spread),
          ask |-> askOf(price, spread),
          impliedVolatility |-> impliedVolatility,
          inTheMoney |-> inTheMoney,
          timeToExpiry |-> timeToExpiry,
          riskFreeRate |-> riskFreeRate,
          volume |-> volumeOf(moneyness, u(7)),
          openInterest |-> openInterestOf(moneyness, u(8)),
          isRecommended |-> isRecommendedOf(u(10)),
          confidence |-> confidenceOf(u(11)),
          predictedVolatility |-> impliedVolatility * 10 + volatilityDifference,
          volatilityDifference |-> volatilityDifference,
          delta |-> delta,
          gamma |-> gammaOf(delta, currentPrice, impliedVolatility, sqrtT),
          vega |-> vegaOf(currentPrice, sqrtT) ]

\* part_000:134-242
generateMockOptions(expirationDates, strikes, type, currentPrice, now, seed) ==
    LET nStrikes == Len(strikes)
        timeToExpiry == [d \in 1..Len(expirationDates) |->
                            timeToExpiryOf(expirationDates[d], now)]
        sqrtT == [d \in 1..Len(expirationDates) |-> Sqrt(timeToExpiry[d])]
        riskFreeRate == [d \in 1..Len(expirationDates) |->
                            riskFreeRateOf(d - 1, Rand(seed, SideNo(type), d - 1, 0, 0))]
    IN  [n \in 1..(Len(expirationDates) * nStrikes) |->
            LET d == ((n - 1) \div nStrikes) + 1
                i == ((n - 1) % nStrikes) + 1
            IN  MockContract(expirationDates[d], d - 1, strikes[i], i - 1, type,
                             currentPrice, timeToExpiry[d], sqrtT[d],
                             riskFreeRate[d], seed)]

\* part_000:46-82: the chain generated for symbol at the instant now (seconds
\* after a Sunday 00:00 UTC) in the time zone tz; uPrice is the draw of
\* getStockPrice, seed selects the draws of the contracts
generateMockOptionsData(symbol, uPrice, now, tz, seed) ==
    LET currentPrice == getStockPrice(symbol, uPrice)
        fridays == getNextFridays(WEEKS, now, tz)
        expirationDates == [d \in 1..WEEKS |-> IsoDate(fridays[d])]
        strikes == StrikesOf(currentPrice)
    IN  [ symbol |-> symbol,
          calls |-> generateMockOptions(expirationDates, strikes, "call",
                                        currentPrice, now, seed),
          puts |-> generateMockOptions(expirationDates, strikes, "put",
                                       currentPrice, now, seed),
          expirationDates |-> expirationDates,
          strikeRange |-> [min |-> minStrikeOf(currentPrice),
                           max |-> maxStrikeOf(currentPrice)],
          lastUpdate |-> now ]

(***************************************************************************)
(* services/optionsAPI.ts: processOptionsData                              *)
(***************************************************************************)
\* optionsAPI.ts:78, in cents
basePrice == 150 * 100

\* optionsAPI.ts:71-75: the four expiry days computed at the instant today
LegacyExpirationDates(today, tz) ==
    [i \in 1..4 |->
        IsoDate(today + (((5 - getDay(today, tz) + 7) % 7) + (i - 1) * 7)
                            * SecondsPerDay)]

\* optionsAPI.ts:79, in cents
LegacyStrikes == [i \in 1..11 |-> basePrice - 25 * 100 + (i - 1) * 5 * 100]

\* optionsAPI.ts:86
daysToExpiryOf(expiry, today) == RoundDiv(DateOf(expiry) - today, SecondsPerDay)

\* optionsAPI.ts:92-93: 5 * Math.exp(-0.05 * daysToExpiry) in 1/10000 dollar,
\* tabulated for daysToExpiry = -1 .. 28
TimeValueTable ==
    << 52564, 50000, 47561, 45242, 43035, 40937, 38940, 37041, 35234, 33516,
       31881, 30327, 28847, 27441, 26102, 24829, 23618, 22466, 21371, 20328,
       19337, 18394, 17497, 16644, 15832, 15060, 14325, 13627, 12962, 12330 >>
LegacyTimeValue(daysToExpiry) == TimeValueTable[daysToExpiry + 2]

\* optionsAPI.ts:102-104: delta in 1/10000; distanceFromStrike in cents
LegacyDelta(isCall, inTheMoney, distanceFromStrike) ==
    IF isCall
    THEN IF inTheMoney THEN 5000 + (5000 - distanceFromStrike)
                       ELSE 5000 - distanceFromStrike
    ELSE IF inTheMoney THEN (0 - 5000) - (5000 - distanceFromStrike)
                       ELSE (0 - 5000) + distanceFromStrike

\* optionsAPI.ts:97: Math.floor(10000 * Math.exp(-0.01 * distanceFromStrike
\* - 0.03 * daysToExpiry)), one row per daysToExpiry = -1 .. 28, one column
\* per distanceFromStrike = 0, 5, .. 25 dollars
VolumeTable ==
    << <<10304, 9801, 9323, 8869, 8436, 8025>>,
       <<10000, 9512, 9048, 8607, 8187, 7788>>,
       <<9704, 9231, 8780, 8352, 7945, 7557>>,
       <<9417, 8958, 8521, 8105, 7710, 7334>>,
       <<9139, 8693, 8269, 7866, 7482, 7117>>,
       <<8869, 8436, 8025, 7633, 7261, 6907>>,
       <<8607, 8187, 7788, 7408, 7046, 6703>>,
       <<8352, 7945, 7557, 7189, 6838, 6505>>,
       <<8105, 7710, 7334, 6976, 6636, 6312>>,
       <<7866, 7482, 7117, 6770, 6440, 6126>>,
       <<7633, 7261, 6907, 6570, 6250, 5945>>,
       <<7408, 7046, 6703, 6376, 6065, 5769>>,
       <<7189, 6838, 6505, 6187, 5886, 5598>>,
       <<6976, 6636, 6312, 6004, 5712, 5433>>,
       <<6770, 6440, 6126, 5827, 5543, 5272>>,
       <<6570, 6250, 5945, 5655, 5379, 5117>>,
       <<6376, 6065, 5769, 5488, 5220, 4965>>,
       <<6187, 5886, 5598, 5325, 5066, 4819>>,
       <<6004, 5712, 5433, 5168, 4916, 4676>>,
       <<5827, 5543, 5272, 5015, 4771, 4538>>,
       <<5655, 5379, 5117, 4867, 4630, 4404>>,
       <<5488, 5220, 4965, 4723, 4493, 4274>>,
       <<5325, 5066, 4819, 4584, 4360, 4147>>,
       <<5168, 4916, 4676, 4448, 4231, 4025>>,
       <<5015, 4771, 4538, 4317, 4106, 3906>>,
       <<4867, 4630, 4404, 4189, 3985, 3790>>,
       <<4723, 4493, 4274, 4065, 3867, 3678>>,
       <<4584, 4360, 4147, 3945, 3753, 3570>>,
       <<4448, 4231, 4025, 3828, 3642, 3464>>,
       <<4317, 4106, 3906, 3715, 3534, 3362>> >>
LegacyVolume(distanceFromStrike, daysToExpiry) ==
    VolumeTable[daysToExpiry + 2][(distanceFromStrike \div 500) + 1]

\* optionsAPI.ts:106, in 1/10000
LegacyGamma(distanceFromStrike) ==
    400 - (300 * Min(distanceFromStrike, 2500)) \div 2500

\* optionsAPI.ts:108, in 1/10000
LegacyVega(distanceFromStrike) == 2000 - (1500 * distanceFromStrike) \div 2500

\* the value of a property that is undefined
undefined == 0 - (1073741824 - 2)

\* optionsAPI.ts:87
LegacyInTheMoney(isCall, strike) ==
    IF isCall THEN strike < basePrice ELSE strike > basePrice

\* optionsAPI.ts:85-136: one contract; u(k) are its draws of Math.random()
LegacyContract(expiry, dateIndex, strike, strikeIndex, isCall, today, seed) ==
    LET u(k) == Rand(seed, IF isCall THEN 0 ELSE 1, dateIndex, strikeIndex, k)
        daysToExpiry == daysToExpiryOf(expiry, today)
        inTheMoney == LegacyInTheMoney(isCall, strike)
        volume == LegacyVolume(Abs(strike - basePrice), daysToExpiry)
        isRecommended == 10 * u(10) < RandRes
        distanceFromStrike == Abs(strike - basePrice)
        lastPrice == (IF inTheMoney THEN distanceFromStrike * 100 ELSE 0)
                         + LegacyTimeValue(daysToExpiry)
        bid == ToFixed2(Max(0, lastPrice - 500))
    IN  [ strike |-> strike,
          expiryDate |-> expiry,
          lastPrice |-> ToFixed2(lastPrice),
          bid |-> bid,
          ask |-> ToFixed2(bid * 100 + 1000),
          volume |-> volume,
          openInterest |-> (volume * 3) \div 2,
          inTheMoney |-> inTheMoney,
          isRecommended |-> isRecommended,
          confidence |-> IF isRecommended
                         THEN RoundDiv(70 * RandRes + 30 * u(11), RandRes) * 10
                         ELSE undefined,
          delta |-> LegacyDelta(isCall, inTheMoney, distanceFromStrike),
          gamma |-> LegacyGamma(distanceFromStrike),
          vega |-> LegacyVega(distanceFromStrike) ]

\* optionsAPI.ts:82-140
generateOptions(isCall, expirationDates, strikes, today, seed) ==
    [n \in 1..(Len(expirationDates) * Len(strikes)) |->
        LET d == ((n - 1) \div Len(strikes)) + 1
            i == ((n - 1) % Len(strikes)) + 1
        IN  LegacyContract(expirationDates[d], d - 1, strikes[i], i - 1,
                           isCall, today, seed)]

\* optionsAPI.ts:63-153
processOptionsData(symbol, today, tz, seed) ==
    LET expirationDates == LegacyExpirationDates(today, tz)
    IN  [ symbol |-> symbol,
          calls |-> generateOptions(TRUE, expirationDates, LegacyStrikes, today, seed),
          puts |-> generateOptions(FALSE, expirationDates, LegacyStrikes, today, seed),
          expirationDates |-> expirationDates,
          strikeRange |-> [min |-> LegacyStrikes[1],
                           max |-> LegacyStrikes[Len(LegacyStrikes)]],
          lastUpdate |-> today ]

(***************************************************************************)
(* The generators run on their own: one chain per behaviour                *)
(***************************************************************************)
MaxSeed == 1

\* every symbol of the price table, and one that has no entry
GenSymbols == { PriceSymbols[i] : i \in DOMAIN PriceSymbols } \cup { <<"Z","Z">> }

\* the symbols given to processOptionsData, which only copies the symbol
LegacySymbols == { <<"A","A","P","L">>, <<"V">>, <<"Z","Z">> }

\* the draws of Math.random() in getStockPrice for a symbol without an entry
GenPriceDraws == 0..(RandRes - 1)

\* Monday 00:00, Thursday 23:59:44 and 23:59:50, Friday 00:00, 12:00 and
\* 18:53:20 UTC of the week that starts at instant 0
GenInstants == { SecondsPerDay, 5 * SecondsPerDay - 16, 5 * SecondsPerDay - 10,
                 5 * SecondsPerDay, 5 * SecondsPerDay + 43200,
                 5 * SecondsPerDay + 68000 }

\* UTC, UTC+10 and UTC-5, in seconds east of Greenwich
TimeZones == { 0, 36000, 0 - 18000 }

InitGen ==
    /\ InitCommon
    /\ reqs = [r \in {} |-> IdleReq]
    /\ genIn = NoGen
    /\ chain = NoChain
    /\ view = NoView

GenerateMock ==
    /\ build = "synth"
    /\ chain = NoChain
    /\ \E symbol \in GenSymbols, now \in GenInstants, tz \in TimeZones,
          seed \in 0..MaxSeed :
        \E uPrice \in IF PricesLookup(symbol) # 0 THEN {0} ELSE GenPriceDraws :
            /\ genIn' = [symbol |-> symbol, uPrice |-> uPrice, now |-> now,
                         tz |-> tz, seed |-> seed]
            /\ chain' = generateMockOptionsData(symbol, uPrice, now, tz, seed)
    /\ UNCHANGED <<view, build, cache, clock, reqs, nextSnap, page>>

ProcessData ==
    /\ build = "cached"
    /\ chain = NoChain
    /\ \E symbol \in LegacySymbols, now \in GenInstants, tz \in TimeZones,
          seed \in 0..MaxSeed :
        /\ genIn' = [symbol |-> symbol, uPrice |-> 0, now |-> now,
                     tz |-> tz, seed |-> seed]
        /\ chain' = processOptionsData(symbol, now, tz, seed)
    /\ UNCHANGED <<view, build, cache, clock, reqs, nextSnap, page>>

NextGen == GenerateMock \/ ProcessData

SpecGen == InitGen /\ [][NextGen]_vars

(***************************************************************************)
(* pages/Options.tsx: the filters                                          *)
(***************************************************************************)
\* null in a field of the filters
unset == 0 - (1073741824 - 3)

\* Options.tsx:13-22: the filters after construction (ticker is page.ticker)
DefaultFilters ==
    [ optionType |-> "calls", expiryDate |-> unset, minStrike |-> unset,
      maxStrike |-> unset, moneyness |-> "ALL", minVolume |-> unset,
      showRecommendationsOnly |-> FALSE ]

Truthy_Always(value) == TRUE

\* Options.tsx:63: the truth value of filters.expiryDate, a date or null
Truthy(value) == value # unset

IsATM_FivePercent(strike, strikeRange) ==
    /\ strike * 100 >= 95 * ((strikeRange.min + strikeRange.max) \div 2)
    /\ strike * 100 <= 105 * ((strikeRange.min + strikeRange.max) \div 2)

\* Options.tsx:88-91: midPrice = (min + max) / 2, range = midPrice * 0.02,
\* strike >= midPrice - range && strike <= midPrice + range; midPrice2 is
\* twice the midpoint, so that no half cent is lost
IsATM(strike, strikeRange) ==
    LET midPrice2 == strikeRange.min + strikeRange.max
    IN  /\ strike * 100 >= 49 * midPrice2
        /\ strike * 100 <= 51 * midPrice2

MatchesMoneyness_Inverted(option, moneyness, strikeRange) ==
    CASE moneyness = "ITM" -> ~option.inTheMoney
      [] moneyness = "OTM" -> option.inTheMoney
      [] moneyness = "ATM" -> IsATM(option.strike, strikeRange)
      [] OTHER -> TRUE

\* Options.tsx:77-96
MatchesMoneyness(option, moneyness, strikeRange) ==
    CASE moneyness = "ITM" -> option.inTheMoney
      [] moneyness = "OTM" -> ~option.inTheMoney
      [] moneyness = "ATM" -> IsATM(option.strike, strikeRange)
      [] OTHER -> TRUE

\* Array.prototype.reverse
Reverse(s) == [i \in 1..Len(s) |-> s[Len(s) + 1 - i]]

getFilteredOptions_Reversed(optionChain, filters) ==
    IF optionChain = NoChain THEN <<>>
    ELSE Reverse(optionChain[filters.optionType])

\* Options.tsx:57-109: the filters are applied one after the other, each to
\* the result of the one before
getFilteredOptions(optionChain, filters) ==
    IF optionChain = NoChain THEN <<>>
    ELSE
    LET all == optionChain[filters.optionType]
        ByExpiry(o) == o.expiryDate = filters.expiryDate
        ByMinStrike(o) == o.strike >= filters.minStrike
        ByMaxStrike(o) == o.strike <= filters.maxStrike
        ByMoneyness(o) ==
            MatchesMoneyness(o, filters.moneyness, optionChain.strikeRange)
        ByVolume(o) == o.volume >= filters.minVolume
        ByRecommendation(o) == o.isRecommended
        f1 == IF Truthy(filters.expiryDate) THEN SelectSeq(all, ByExpiry) ELSE all
        f2 == IF filters.minStrike # unset THEN SelectSeq(f1, ByMinStrike) ELSE f1
        f3 == IF filters.maxStrike # unset THEN SelectSeq(f2, ByMaxStrike) ELSE f2
        f4 == IF filters.moneyness # "ALL" THEN SelectSeq(f3, ByMoneyness) ELSE f3
        f5 == IF filters.minVolume # unset THEN SelectSeq(f4, ByVolume) ELSE f4
    IN  IF filters.showRecommendationsOnly
        THEN SelectSeq(f5, ByRecommendation) ELSE f5

(***************************************************************************)
(* OptionsTable (unnamed/part_001, part_002): the sort                     *)
(***************************************************************************)
\* part_001:48-49: a[sortConfig.key]; a property the contract does not have
\* is undefined
KeyOf(option, key) == IF key \in DOMAIN option THEN option[key] ELSE undefined

\* the comparisons < and > of two numbers, false when one of them is NaN
LessThan(a, b) == ~IsNaN(a) /\ ~IsNaN(b) /\ a < b

compare_IgnoreDirection(a, b, sortConfig) ==
    LET aValue == KeyOf(a, sortConfig.key)
        bValue == KeyOf(b, sortConfig.key)
    IN  IF aValue = undefined \/ bValue = undefined THEN 0
        ELSE IF LessThan(aValue, bValue) THEN 0 - 1
        ELSE IF LessThan(bValue, aValue) THEN 1
        ELSE 0

\* part_001:47-60: the comparison function given to sort
compare(a, b, sortConfig) ==
    LET aValue == KeyOf(a, sortConfig.key)
        bValue == KeyOf(b, sortConfig.key)
    IN  IF aValue = undefined \/ bValue = undefined THEN 0
        ELSE IF LessThan(aValue, bValue)
             THEN (IF sortConfig.direction = "asc" THEN 0 - 1 ELSE 1)
        ELSE IF LessThan(bValue, aValue)
             THEN (IF sortConfig.direction = "asc" THEN 1 ELSE 0 - 1)
        ELSE 0

\* Array.prototype.sort, as the engine of Chrome and Node runs it
\* (ArrayTimSortImpl).  The array is cut into runs: the run the remaining
\* part starts with is taken as it is (reversed when it strictly descends)
\* and is extended to minRunLength elements by binary insertion; an array of
\* fewer than 64 elements is one run.  The runs of a longer array are then
\* merged.  The sort is stable.  The merge of the model is the plain stable
\* merge: it is what the engine's galloping merge returns whenever the
\* comparison function is a consistent order.
RECURSIVE ComputeMinRunLength(_, _)
ComputeMinRunLength(n, r) ==
    IF n >= 64 THEN ComputeMinRunLength(n \div 2, Max(r, n % 2)) ELSE n + r

\* CountAndMakeRun: the length of the run s starts with
CountRun(s, isDescending, sortConfig) ==
    LET Breaks(i) ==
            LET order == compare(s[i], s[i - 1], sortConfig)
            IN  (isDescending /\ order >= 0) \/ (~isDescending /\ order < 0)
        ends == {i \in 3..Len(s) : Breaks(i)}
    IN  IF ends = {} THEN Len(s)
        ELSE (CHOOSE i \in ends : \A j \in ends : i <= j) - 1

RECURSIVE BinarySearch(_, _, _, _, _)
BinarySearch(s, pivot, left, right, sortConfig) ==
    IF left >= right THEN left
    ELSE LET mid == left + (right - left) \div 2
         IN  IF compare(pivot, s[mid], sortConfig) < 0
             THEN BinarySearch(s, pivot, left, mid, sortConfig)
             ELSE BinarySearch(s, pivot, mid + 1, right, sortConfig)

\* BinaryInsertionSort: s[start], ..., s[high] put one after the other into
\* the sorted run (which is never empty; its length is asked first so that
\* the run is computed before the elements that follow it are inserted)
RECURSIVE BinaryInsertionSort(_, _, _, _, _)
BinaryInsertionSort(sorted, s, start, high, sortConfig) ==
    IF Len(sorted) = 0 \/ start > high THEN sorted
    ELSE IF start = high
    THEN LET pivot == s[start]
             at == BinarySearch(sorted, pivot, 1, Len(sorted) + 1, sortConfig)
         IN  SubSeq(sorted, 1, at - 1) \o <<pivot>>
                 \o SubSeq(sorted, at, Len(sorted))
    ELSE LET mid == (start + high) \div 2
         IN  BinaryInsertionSort(
                 BinaryInsertionSort(sorted, s, start, mid, sortConfig),
                 s, mid + 1, high, sortConfig)

\* the first run of s, sorted, of forcedRunLength elements when the run s
\* starts with is shorter
MakeRun(s, minRunLength, sortConfig) ==
    IF Len(s) < 2 THEN s
    ELSE LET isDescending == compare(s[2], s[1], sortConfig) < 0
             currentRunLength == CountRun(s, isDescending, sortConfig)
             run == SubSeq(s, 1, currentRunLength)
             forcedRunLength == Max(currentRunLength, Min(minRunLength, Len(s)))
         IN  BinaryInsertionSort(IF isDescending THEN Reverse(run) ELSE run,
                                 s, currentRunLength + 1, forcedRunLength,
                                 sortConfig)

RECURSIVE Merge(_, _, _)
Merge(runA, runB, sortConfig) ==
    IF runA = <<>> THEN runB
    ELSE IF runB = <<>> THEN runA
    ELSE LET mid == (Len(runA) + 1) \div 2
             before == {j \in 1..Len(runB) :
                          \A i \in 1..j : compare(runB[i], runA[mid], sortConfig) < 0}
             k == Cardinality(before)
         IN  Merge(SubSeq(runA, 1, mid - 1), SubSeq(runB, 1, k), sortConfig)
                 \o <<runA[mid]>>
                 \o Merge(SubSeq(runA, mid + 1, Len(runA)),
                          SubSeq(runB, k + 1, Len(runB)), sortConfig)

RECURSIVE MergeRuns(_, _, _, _)
MergeRuns(merged, s, minRunLength, sortConfig) ==
    IF s = <<>> THEN merged
    ELSE LET run == MakeRun(s, minRunLength, sortConfig)
         IN  MergeRuns(Merge(merged, run, sortConfig),
                       SubSeq(s, Len(run) + 1, Len(s)), minRunLength, sortConfig)

ArraySort(s, sortConfig) ==
    MergeRuns(<<>>, s, ComputeMinRunLength(Len(s), 0), sortConfig)

\* part_001:22-24: the sortConfig after construction
DefaultSort == [key |-> "strike", direction |-> "asc"]

\* part_001:43-64: a copy of options, sorted (sortConfig is never null)
getSortedOptions(options, sortConfig) == ArraySort(options, sortConfig)

(***************************************************************************)
(* The page showing one chain: filters, sort, and the rows they yield      *)
(***************************************************************************)
\* Options.tsx:111 and part_001:183: what a render computes from the state
Render(optionChain, filters, sortConfig) ==
    LET filteredOptions == getFilteredOptions(optionChain, filters)
    IN  [ filters |-> filters,
          sortConfig |-> sortConfig,
          filteredOptions |-> filteredOptions,
          sortedOptions |-> getSortedOptions(filteredOptions, sortConfig) ]

\* the chains the page shows: part_000's for a symbol without a table entry
\* (drawn at 150.00) ten seconds before the midnight of its first expiry, and
\* services/optionsAPI.ts's on a Monday
QueryInputs ==
    IF build = "synth"
    THEN { [symbol |-> <<"Z","Z">>, uPrice |-> 0,
            now |-> 5 * SecondsPerDay - 10, tz |-> 0, seed |-> 0] }
    ELSE { [symbol |-> <<"V">>, uPrice |-> 0,
            now |-> SecondsPerDay, tz |-> 0, seed |-> 0] }

InitQuery ==
    /\ InitCommon
    /\ reqs = [r \in {} |-> IdleReq]
    /\ genIn \in QueryInputs
    /\ chain = IF build = "synth"
               THEN generateMockOptionsData(genIn.symbol, genIn.uPrice,
                                            genIn.now, genIn.tz, genIn.seed)
               ELSE processOptionsData(genIn.symbol, genIn.now, genIn.tz,
                                       genIn.seed)
    /\ view = Render(chain, DefaultFilters, DefaultSort)

\* Options.tsx:45-47: setFilters({ ...filters, ...newFilters }), and the
\* render that follows
handleFilterChange(newFilters) ==
    /\ view' = Render(chain,
                      [k \in DOMAIN view.filters |->
                          IF k \in DOMAIN newFilters THEN newFilters[k]
                                                     ELSE view.filters[k]],
                      view.sortConfig)
    /\ UNCHANGED <<genIn, chain, build, cache, clock, reqs, nextSnap, page>>

\* OptionsInputPanel.tsx:55-57
handleOptionTypeChange ==
    \E value \in {"calls", "puts"} : handleFilterChange([optionType |-> value])

\* the value of the item "All Dates" of the expiration select
all_dates == 0 - (1073741824 - 4)

\* OptionsInputPanel.tsx:59-61, 168-177: the items are "All Dates" and the
\* chain's expirationDates (the model offers the first two)
handleExpiryChange ==
    \E value \in {all_dates, chain.expirationDates[1], chain.expirationDates[2]} :
        handleFilterChange([expiryDate |-> IF value = all_dates THEN unset
                                                                ELSE value])

\* OptionsInputPanel.tsx:206-212: the slider moves in steps of a twentieth
\* of the strike range
SliderValue(strikeRange, k) ==
    strikeRange.min + (k * (strikeRange.max - strikeRange.min)) \div 20

\* OptionsInputPanel.tsx:63-70: the two thumbs of the slider, applied
applyStrikeRange ==
    \E k \in {<<0, 10>>, <<5, 15>>} :
        handleFilterChange([minStrike |-> SliderValue(chain.strikeRange, k[1]),
                            maxStrike |-> SliderValue(chain.strikeRange, k[2])])

\* OptionsInputPanel.tsx:72-78
handleResetStrikeRange ==
    handleFilterChange([minStrike |-> chain.strikeRange.min,
                        maxStrike |-> chain.strikeRange.max])

\* OptionsInputPanel.tsx:80-82
handleMoneynessChange ==
    \E value \in {"ALL", "ITM", "ATM", "OTM"} :
        handleFilterChange([moneyness |-> value])

\* OptionsInputPanel.tsx:229
onRecommendationsChange ==
    \E checked \in BOOLEAN :
        handleFilterChange([showRecommendationsOnly |-> checked])

\* OptionsInputPanel.tsx:241
onVolumeChange ==
    \E checked \in BOOLEAN :
        handleFilterChange([minVolume |-> IF checked THEN 100 ELSE unset])

\* the columns whose header the model lets the user click
SortKeys == {"strike", "delta", "timeToExpiry"}

\* part_001:28-36, and the render that follows
requestSort ==
    \E key \in SortKeys :
        /\ view' = Render(chain, view.filters,
                          [key |-> key,
                           direction |->
                               IF view.sortConfig.key = key
                                  /\ view.sortConfig.direction = "asc"
                               THEN "desc" ELSE "asc"])
        /\ UNCHANGED <<genIn, chain, build, cache, clock, reqs, nextSnap, page>>

NextQuery ==
    \/ handleOptionTypeChange
    \/ handleExpiryChange
    \/ applyStrikeRange
    \/ handleResetStrikeRange
    \/ handleMoneynessChange
    \/ onRecommendationsChange
    \/ onVolumeChange
    \/ requestSort

SpecQuery == InitQuery /\ [][NextQuery]_vars

(***************************************************************************)
(* components/options/OptionsStats.tsx: the charts of the Analysis tab     *)
(***************************************************************************)
\* OptionsStats.tsx:14: the side the statistics are computed from
currentOptionType == "calls"

\* OptionsStats.tsx:20, 35: reduce((sum, opt) => sum + opt.volume, 0) over
\* options[lo], ..., options[hi]; the sum of integers, halved so that a long
\* side is summed in few nested steps
RECURSIVE SumVolume(_, _, _)
SumVolume(options, lo, hi) ==
    IF lo > hi THEN 0
    ELSE IF lo = hi THEN options[lo].volume
    ELSE LET mid == (lo + hi) \div 2
         IN  SumVolume(options, lo, mid) + SumVolume(options, mid + 1, hi)

\* OptionsStats.tsx:18-26: one point per expiration date of the chain
volumeByExpiry(optionChain) ==
    LET options == optionChain[currentOptionType]
    IN  [i \in DOMAIN optionChain.expirationDates |->
            LET date == optionChain.expirationDates[i]
                ForDate(opt) == opt.expiryDate = date
                optionsForDate == SelectSeq(options, ForDate)
            IN  [date |-> date,
                 volume |-> SumVolume(optionsForDate, 1, Len(optionsForDate))]]

\* OptionsStats.tsx:30: Math.ceil((strikeRange.max - strikeRange.min) / 10),
\* a whole number of dollars, in cents
strikeIntervalOf(strikeRange) ==
    ((strikeRange.max - strikeRange.min + 999) \div 1000) * 100

\* OptionsStats.tsx:31-41: ten points, the i-th for the strikes from
\* minStrike (included) to maxStrike (excluded)
volumeByStrike(optionChain) ==
    LET options == optionChain[currentOptionType]
        strikeInterval == strikeIntervalOf(optionChain.strikeRange)
    IN  [n \in 1..10 |->
            LET minStrike == optionChain.strikeRange.min + (n - 1) * strikeInterval
                maxStrike == minStrike + strikeInterval
                InRange(opt) == opt.strike >= minStrike /\ opt.strike < maxStrike
                optionsInRange == SelectSeq(options, InRange)
            IN  [minStrike |-> minStrike, maxStrike |-> maxStrike,
                 volume |-> SumVolume(optionsInRange, 1, Len(optionsInRange))]]

mostActiveOptions_Ascending(optionChain) ==
    LET sorted == ArraySort(optionChain[currentOptionType],
                            [key |-> "volume", direction |-> "asc"])
    IN  SubSeq(sorted, 1, Min(5, Len(sorted)))

\* OptionsStats.tsx:44-46: [...options].sort((a, b) => b.volume - a.volume)
\* .slice(0, 5); every volume is a number, and b.volume - a.volume has the
\* sign of the comparison by the key volume in direction desc
mostActiveOptions(optionChain) ==
    LET sorted == ArraySort(optionChain[currentOptionType],
                            [key |-> "volume", direction |-> "desc"])
    IN  SubSeq(sorted, 1, Min(5, Len(sorted)))

(***************************************************************************)
(* The valuation signal: OptionsTable (unnamed/part_001) and               *)
(* getRecommendationReasons (unnamed/part_000)                             *)
(***************************************************************************)
getRecommendationBadge_ThreePercent(option) ==
    LET diff == KeyOf(option, "volatilityDifference")
    IN  IF diff = undefined THEN "none"
        ELSE IF diff > 3000 THEN "Buy"
        ELSE IF diff < 0 - 3000 THEN "Avoid"
        ELSE "none"

\* part_001:119-162: the text of the badge, "none" where null is returned;
\* differences are in 1/1000 percent
getRecommendationBadge(option) ==
    LET diff == KeyOf(option, "volatilityDifference")
    IN  IF diff = undefined THEN "none"
        ELSE LET isGoodInvestment == diff > 2000
                 isBadInvestment == diff < 0 - 2000
             IN  IF ~isGoodInvestment /\ ~isBadInvestment THEN "none"
                 ELSE IF isGoodInvestment THEN "Buy" ELSE "Avoid"

\* part_001:234: option.volatilityDifference && option.volatilityDifference > 2
\* gives the row the class bg-option-highlight
rowHighlight(option) ==
    LET diff == KeyOf(option, "volatilityDifference")
    IN  diff # undefined /\ diff # 0 /\ diff > 2000

\* part_001:281-319: the first lines of the blocks of the list "Volatility
\* Analysis" of an expanded row; the list is not rendered without a
\* volatilityDifference
volatilityAnalysis(option) ==
    LET diff == KeyOf(option, "volatilityDifference")
    IN  IF diff = undefined THEN <<>>
        ELSE (IF diff > 2000 THEN <<"Undervalued by">> ELSE <<>>)
             \o (IF diff < 0 - 2000 THEN <<"Overvalued by">> ELSE <<>>)
             \o (IF Abs(diff) <= 2000 THEN <<"Contract is fairly valued">> ELSE <<>>)

\* part_000:298-333: the reasons, each by the words it starts with
getRecommendationReasons(option) ==
    LET diff == KeyOf(option, "volatilityDifference")
        delta == KeyOf(option, "delta")
        openInterest == KeyOf(option, "openInterest")
        timeToExpiry == KeyOf(option, "timeToExpiry")
        byVolatility ==
            IF diff = undefined THEN <<>>
            ELSE IF diff > 3000
                 THEN <<"Undervalued by",
                        "Our model predicts higher volatility than current market pricing">>
            ELSE IF diff > 0 THEN <<"Slightly undervalued by">>
            ELSE IF diff < 0 - 3000
                 THEN <<"Overvalued by",
                        "Market is pricing in more volatility than our model predicts">>
            ELSE IF diff < 0 THEN <<"Slightly overvalued by">>
            ELSE <<>>
        byDelta ==
            IF delta # undefined /\ ~IsNaN(delta) /\ delta # 0 /\ Abs(delta) > 7000
            THEN <<"High delta">> ELSE <<>>
        byOpenInterest ==
            IF openInterest # undefined /\ openInterest # 0 /\ openInterest > 1000
            THEN <<"Good liquidity with open interest of">> ELSE <<>>
        byTime ==
            IF timeToExpiry # undefined /\ timeToExpiry < 80000
            THEN <<"Short time to expiry">>
            ELSE IF timeToExpiry # undefined /\ timeToExpiry > 250000
            THEN <<"Longer expiration">>
            ELSE <<>>
    IN  byVolatility \o byDelta \o byOpenInterest \o byTime

(***************************************************************************)
(* Claims about the chain repository                                       *)
(***************************************************************************)
Done(r) == reqs[r].pc = "done"

C2_ExpiredRefetch ==
    \A r \in Req :
        ( /\ build = "cached"
          /\ Done(r)
          /\ reqs[r].seen # NoEntry
          /\ reqs[r].now - reqs[r].seen.timestamp >= CACHE_EXPIRY )
        => ( /\ reqs[r].result # Null
             /\ reqs[r].result.id # reqs[r].seen.data.id
             /\ reqs[r].result.lastUpdate >= reqs[r].now
             /\ reqs[r].stored )

\* C3: two calls for the same symbol of which the second started while the
\* first was in flight, less than CACHE_EXPIRY apart, and which both returned
\* a chain, returned the same chain object.
C3_SameSnapshot ==
    \A r1, r2 \in Req :
        ( /\ Done(r1) /\ Done(r2)
          /\ r1 \in reqs[r2].overlap
          /\ ToUpperCase(reqs[r1].symbol) = ToUpperCase(reqs[r2].symbol)
          /\ reqs[r2].now - reqs[r1].now < CACHE_EXPIRY
          /\ reqs[r1].result # Null
          /\ reqs[r2].result # Null )
        => reqs[r1].result.id = reqs[r2].result.id

Failures == {"transport", "httpError", "errorPayload", "rateLimit"}

\* C4: every completed call for a non-empty symbol has returned a chain, and
\* a call whose live request failed or was rate-limited made one network
\* request and one synthesis.
C4_AlwaysChain ==
    \A r \in Req :
        (Done(r) /\ reqs[r].symbol # <<>>)
        => ( /\ reqs[r].result # Null
             /\ reqs[r].outcome \in Failures
                   => (reqs[r].net = 1 /\ reqs[r].synth = 1) )

\* C5: a call whose request failed in transport has shown exactly one toast,
\* a rate-limited call exactly one toast, different from the one of a
\* transport failure, and a successful call (or a cache hit) none.
C5_OneWarning ==
    /\ \A r \in Req :
          Done(r) =>
             /\ reqs[r].outcome = "transport" => Len(reqs[r].toasts) = 1
             /\ reqs[r].outcome = "rateLimit" => Len(reqs[r].toasts) = 1
             /\ reqs[r].outcome \in {"success", "hit"} => reqs[r].toasts = <<>>
    /\ \A r1, r2 \in Req :
          ( /\ Done(r1) /\ Done(r2)
            /\ reqs[r1].outcome = "transport"
            /\ reqs[r2].outcome = "rateLimit" )
          => reqs[r1].toasts # reqs[r2].toasts

\* two texts that differ at most in the case of their letters
SameIgnoringCase(a, b) ==
    /\ Len(a) = Len(b)
    /\ \A i \in 1..Len(a) :
          \/ a[i] = b[i]
          \/ \E j \in 1..Len(LowerLetters) :
                {a[i], b[i]} = {LowerLetters[j], UpperLetters[j]}

TablePrices == { PriceCents[i] : i \in 1..Len(PriceCents) }

Generated == chain # NoChain
Calls == IF Generated THEN { chain.calls[n] : n \in DOMAIN chain.calls } ELSE {}
Puts == IF Generated THEN { chain.puts[n] : n \in DOMAIN chain.puts } ELSE {}
Contracts == Calls \cup Puts

\* the reference price the generator of this build used for the chain
ReferencePrice ==
    IF build = "synth" THEN getStockPrice(genIn.symbol, genIn.uPrice)
                       ELSE basePrice

\* C7: in every generated chain every contract has 0 <= bid <= lastPrice <=
\* ask, after the rounding to cents
C7_PriceOrder ==
    \A c \in Contracts : 0 <= c.bid /\ c.bid <= c.lastPrice /\ c.lastPrice <= c.ask

\* a chain of part_000 with a contract whose three prices differ, and a
\* worthless one (all three 0)
C7_Witness ==
    /\ Generated /\ build = "synth"
    /\ \E c \in Contracts : 0 < c.bid /\ c.bid < c.lastPrice /\ c.lastPrice < c.ask
    /\ \E c \in Contracts : c.ask = 0

\* C8: every contract of calls and of puts has its expiryDate among the
\* chain's expirationDates and its strike within the chain's strikeRange
C8_WellFormed ==
    \A c \in Contracts :
        /\ \E d \in DOMAIN chain.expirationDates :
               chain.expirationDates[d] = c.expiryDate
        /\ chain.strikeRange.min <= c.strike
        /\ c.strike <= chain.strikeRange.max

\* a chain for an unknown symbol whose strike ladder ends exactly on
\* strikeRange.max
C8_Witness ==
    /\ Generated /\ build = "synth"
    /\ PricesLookup(genIn.symbol) = 0
    /\ \E c \in Calls : c.strike = chain.strikeRange.max
    /\ \E c \in Puts : c.strike = chain.strikeRange.min

\* C9: every call has a delta strictly between 0 and 1, every put a delta
\* strictly between -1 and 0
C9_DeltaBySide ==
    /\ \A c \in Calls : 0 < c.delta /\ c.delta < 10000
    /\ \A c \in Puts : (0 - 10000) < c.delta /\ c.delta < 0

\* C10: an in-the-money call has a delta in [0.5, 0.99], any other call in
\* [0.01, 0.5]; an in-the-money put (reference price < strike) has a delta in
\* [-0.99, -0.5], any other put in [-0.5, -0.01]
C10_DeltaByMoneyness ==
    /\ \A c \in Calls :
           IF ReferencePrice > c.strike
           THEN 5000 <= c.delta /\ c.delta <= 9900
           ELSE 100 <= c.delta /\ c.delta <= 5000
    /\ \A c \in Puts :
           IF ReferencePrice < c.strike
           THEN (0 - 9900) <= c.delta /\ c.delta <= (0 - 5000)
           ELSE (0 - 5000) <= c.delta /\ c.delta <= (0 - 100)

\* C11: every generated contract, call or put, has gamma >= 0 and vega >= 0
C11_GammaVegaNonNegative ==
    \A c \in Contracts : c.gamma >= 0 /\ c.vega >= 0

\* C12: a call is flagged in the money iff the reference price of its chain
\* is above its strike, a put iff the reference price is below its strike; a
\* contract whose strike equals the reference price is flagged on neither side
C12_InTheMoneyRule ==
    /\ \A c \in Calls : c.inTheMoney <=> (ReferencePrice > c.strike)
    /\ \A c \in Puts : c.inTheMoney <=> (ReferencePrice < c.strike)

\* a chain of part_000 with a strike equal to the reference price, out of the
\* money as a call and as a put, next to in-the-money calls and puts
C12_Witness ==
    /\ Generated /\ build = "synth"
    /\ \E c \in Calls : c.strike = ReferencePrice /\ ~c.inTheMoney
    /\ \E c \in Puts : c.strike = ReferencePrice /\ ~c.inTheMoney
    /\ \E c \in Calls : c.inTheMoney
    /\ \E c \in Puts : c.inTheMoney

\* the calendar day of the instant of generation, in the user's time zone
CurrentDate == (genIn.now + genIn.tz) \div SecondsPerDay

\* the weekday of a calendar day (0 is Sunday, 5 is Friday)
Weekday(day) == day % 7

\* C13: expirationDates holds exactly W dates (6; 4 in the older generator),
\* consecutive dates are exactly 7 days apart, every date is a Friday, and
\* the first date is strictly after the current date
C13_ExpirationLadder ==
    Generated =>
        LET dates == chain.expirationDates
        IN  /\ Len(dates) = (IF build = "synth" THEN WEEKS ELSE 4)
            /\ \A d \in 1..(Len(dates) - 1) : dates[d + 1] = dates[d] + 7
            /\ \A d \in 1..Len(dates) : Weekday(dates[d]) = 5
            /\ dates[1] > CurrentDate

\* the number of strikes of the generated chain
StrikeLadderSize == Cardinality({ c.strike : c \in Calls })

\* C14 as stated: the strikes generated from 0.7 x price to 1.3 x price with
\* the increment of the step table number between 10 and 15
C14_StrikeLadderSize ==
    (Generated /\ build = "synth") =>
        10 <= StrikeLadderSize /\ StrikeLadderSize <= 15

\* C14 as the step table makes it: the ladder holds
\* floor((maxStrike - minStrike) / increment) + 1 strikes, which is between
\* 13 and 31, for every symbol of the price table and every price drawn
\* from the fallback band
C14_StrikeLadderSize_Amended ==
    (Generated /\ build = "synth") =>
        /\ StrikeLadderSize =
               ((chain.strikeRange.max - chain.strikeRange.min)
                    \div getStrikeIncrement(ReferencePrice)) + 1
        /\ 13 <= StrikeLadderSize /\ StrikeLadderSize <= 31

\* a chain for a price drawn from the fallback band with more than 15 strikes
C14_Witness ==
    /\ Generated /\ build = "synth"
    /\ PricesLookup(genIn.symbol) = 0
    /\ StrikeLadderSize > 15

\* C15: the time to expiry of every contract of part_000 is strictly greater
\* than 0, at every instant at which a chain may be generated
C15_TimeToExpiryPositive ==
    build = "synth" => \A c \in Contracts : c.timeToExpiry > 0

(***************************************************************************)
(* Claims about the filters and the sort                                   *)
(***************************************************************************)
Shown == view # NoView
Range(s) == { s[n] : n \in DOMAIN s }

\* the side of the chain the filters select
Side == chain[view.filters.optionType]

\* no two contracts of a side have the same expiry date and strike, so a
\* contract has one position in a sequence drawn from the side
PositionIn(s, option) == CHOOSE n \in DOMAIN s : s[n] = option

\* sub holds contracts of s, each once, in the order they have in s
IsSubsequence(sub, s) ==
    LET kept == Range(sub)
        IsKept(option) == option \in kept
    IN  sub = SelectSeq(s, IsKept)

AllUnset ==
    /\ view.filters.expiryDate = unset
    /\ view.filters.minStrike = unset
    /\ view.filters.maxStrike = unset
    /\ view.filters.moneyness = "ALL"
    /\ view.filters.minVolume = unset
    /\ ~view.filters.showRecommendationsOnly

\* C16: the filtered rows are at most as many as the contracts of the
\* selected side, and with every filter unset they are the side itself, in
\* its order
C16_Narrowing ==
    Shown =>
        /\ Len(view.filteredOptions) <= Len(Side)
        /\ AllUnset => view.filteredOptions = Side

\* the puts shown with every filter unset, after filters had been set
C16_Witness ==
    /\ Shown /\ AllUnset
    /\ view.filters.optionType = "puts"
    /\ view.sortConfig # DefaultSort
    /\ view.filteredOptions = chain.puts
    /\ Len(chain.puts) > 0

\* C17: the filtered rows are a subsequence of the selected side in the
\* side's order, they are the same whatever the sort is, and no change of
\* a filter changes the chain
C17_Pure ==
    /\ [](Shown =>
            /\ IsSubsequence(view.filteredOptions, Side)
            /\ \A key \in SortKeys, direction \in {"asc", "desc"} :
                   Render(chain, view.filters,
                          [key |-> key, direction |-> direction]).filteredOptions
                       = view.filteredOptions)
    /\ [][Shown => chain' = chain]_vars

\* some but not all of the puts are shown
C17_Witness ==
    /\ Shown
    /\ view.filters.optionType = "puts"
    /\ 0 < Len(view.filteredOptions)
    /\ Len(view.filteredOptions) < Len(chain.puts)

\* 2 x |strike - midpoint| <= 2 x 2% of the midpoint, the midpoint being
\* half of strikeRange.min + strikeRange.max
WithinTwoPercentOfMidpoint(strike) ==
    Abs(2 * strike - (chain.strikeRange.min + chain.strikeRange.max)) * 50
        <= chain.strikeRange.min + chain.strikeRange.max

\* the predicates of the filters, each true of every contract when unset
PassesExpiry(option) ==
    view.filters.expiryDate # unset => option.expiryDate = view.filters.expiryDate
PassesMinStrike(option) ==
    view.filters.minStrike # unset => option.strike >= view.filters.minStrike
PassesMaxStrike(option) ==
    view.filters.maxStrike # unset => option.strike <= view.filters.maxStrike
PassesMoneyness(option) ==
    /\ view.filters.moneyness = "ITM" => option.inTheMoney
    /\ view.filters.moneyness = "OTM" => ~option.inTheMoney
    /\ view.filters.moneyness = "ATM" => WithinTwoPercentOfMidpoint(option.strike)
PassesVolume(option) ==
    view.filters.minVolume # unset => option.volume >= view.filters.minVolume
PassesRecommendation(option) ==
    view.filters.showRecommendationsOnly => option.isRecommended

PassesAll(option) ==
    /\ PassesExpiry(option) /\ PassesMinStrike(option)
    /\ PassesMaxStrike(option) /\ PassesMoneyness(option)
    /\ PassesVolume(option) /\ PassesRecommendation(option)

\* C18: the filtered rows are the contracts of the selected side that pass
\* every predicate, and they are the same when the predicates are applied
\* in the opposite order
C18_Conjunctive ==
    Shown =>
        /\ view.filteredOptions = SelectSeq(Side, PassesAll)
        /\ view.filteredOptions =
               SelectSeq(SelectSeq(SelectSeq(SelectSeq(SelectSeq(SelectSeq(
                   Side, PassesRecommendation), PassesVolume), PassesMoneyness),
                   PassesMaxStrike), PassesMinStrike), PassesExpiry)

\* an expiry, a strike range, a moneyness and a minimum volume are set at
\* once, and each of the four alone lets through a contract the others stop
C18_Witness ==
    /\ Shown
    /\ view.filters.expiryDate # unset /\ view.filters.minStrike # unset
    /\ view.filters.moneyness = "OTM" /\ view.filters.minVolume # unset
    /\ view.filteredOptions # <<>>
    /\ \E o \in Range(Side) : PassesExpiry(o) /\ ~PassesMinStrike(o)
    /\ \E o \in Range(Side) : PassesMinStrike(o) /\ PassesMaxStrike(o) /\ ~PassesExpiry(o)
    /\ \E o \in Range(Side) : PassesExpiry(o) /\ PassesMinStrike(o)
                                /\ PassesMaxStrike(o) /\ ~PassesMoneyness(o)
    /\ \E o \in Range(Side) : PassesExpiry(o) /\ PassesMinStrike(o)
                                /\ PassesMaxStrike(o) /\ PassesMoneyness(o)
                                /\ ~PassesVolume(o)

\* C19: with moneyness ATM the filtered rows are the contracts, of those
\* the other filters let through, whose strike is within 2% of the midpoint
\* of the chain's strike range, in the money or not
C19_AtTheMoney ==
    (Shown /\ view.filters.moneyness = "ATM") =>
        LET others == Render(chain, [view.filters EXCEPT !.moneyness = "ALL"],
                             view.sortConfig).filteredOptions
            Near(option) == WithinTwoPercentOfMidpoint(option.strike)
        IN  view.filteredOptions = SelectSeq(others, Near)

\* ATM rows are shown while the side holds contracts outside the band, both
\* in the money and out of it
C19_Witness ==
    /\ Shown /\ view.filters.moneyness = "ATM"
    /\ view.filteredOptions # <<>>
    /\ \E o \in Range(Side) : o.inTheMoney /\ ~WithinTwoPercentOfMidpoint(o.strike)
    /\ \E o \in Range(Side) : ~o.inTheMoney /\ ~WithinTwoPercentOfMidpoint(o.strike)

\* C20: the sorted rows are the filtered rows in another order; two rows
\* with equal keys, or with undefined keys, stand as they stood before the
\* sort, and two rows of which one key is less than the other stand in the
\* direction asked for
C20_StableOrdered ==
    Shown =>
        LET input == view.filteredOptions
            sorted == view.sortedOptions
            key == view.sortConfig.key
            before == [n \in DOMAIN sorted |-> PositionIn(input, sorted[n])]
        IN  /\ Len(sorted) = Len(input)
            /\ Range(sorted) = Range(input)
            /\ \A i, j \in DOMAIN sorted :
                   i < j =>
                       LET aValue == KeyOf(sorted[i], key)
                           bValue == KeyOf(sorted[j], key)
                       IN  /\ aValue = bValue => before[i] < before[j]
                           /\ (aValue # undefined /\ bValue # undefined) =>
                                  IF view.sortConfig.direction = "asc"
                                  THEN ~LessThan(bValue, aValue)
                                  ELSE ~LessThan(aValue, bValue)

C22_MostActive ==
    Generated =>
        LET side == chain[currentOptionType]
            top == mostActiveOptions(chain)
            at == [n \in DOMAIN top |-> PositionIn(side, top[n])]
            omitted == Range(side) \ Range(top)
        IN  /\ Len(top) = Min(5, Len(side))
            /\ Range(top) \subseteq Range(side)
            /\ \A i, j \in DOMAIN top :
                   i < j => /\ top[i].volume >= top[j].volume
                            /\ top[i].volume = top[j].volume => at[i] < at[j]
            /\ \A o \in omitted : \A n \in DOMAIN top :
                   /\ o.volume <= top[n].volume
                   /\ o.volume = top[n].volume => at[n] < PositionIn(side, o)
            /\ \A n \in 1..(Len(side) - 1) :
                   \/ side[n].expiryDate < side[n + 1].expiryDate
                   \/ /\ side[n].expiryDate = side[n + 1].expiryDate
                      /\ side[n].strike < side[n + 1].strike

\* five of more than five calls are returned, two of them with one volume,
\* and a call of that volume is left out
C22_Witness ==
    /\ Generated
    /\ Len(chain[currentOptionType]) > 5
    /\ LET top == mostActiveOptions(chain)
       IN  /\ \E i, j \in DOMAIN top : i < j /\ top[i].volume = top[j].volume
           /\ \E o \in Range(chain[currentOptionType]) \ Range(top) :
                  o.volume = top[Len(top)].volume

\* C29: every contract of the side is counted in exactly one of the ten
\* strike buckets, the contract at strikeRange.max included, and the
\* volumes of the buckets add up to the volume of the side
C29_VolumeByStrikeConserved ==
    Generated =>
        LET side == chain[currentOptionType]
            points == volumeByStrike(chain)
        IN  /\ \A o \in Range(side) :
                   Cardinality({ n \in DOMAIN points :
                                   /\ o.strike >= points[n].minStrike
                                   /\ o.strike < points[n].maxStrike }) = 1
            /\ SumVolume(points, 1, Len(points)) = SumVolume(side, 1, Len(side))

(***************************************************************************)
(* Claims about the valuation signal                                       *)
(***************************************************************************)
\* a contract that has nothing but this volatility difference
OnlyDifference(option) ==
    IF "volatilityDifference" \in DOMAIN option
    THEN [volatilityDifference |-> option.volatilityDifference]
    ELSE [strike |-> 0]

C24_ReasonBands ==
    \A c \in Contracts :
        LET diff == KeyOf(c, "volatilityDifference")
            reasons == getRecommendationReasons(c)
            Says(text) == \E n \in DOMAIN reasons : reasons[n] = text
        IN  diff # undefined =>
                /\ Says("Undervalued by") <=> diff > 2000
                /\ Says("Slightly undervalued by") <=> (0 < diff /\ diff <= 2000)
                /\ Says("Overvalued by") <=> diff < 0 - 2000
                /\ Says("Slightly overvalued by") <=> (0 - 2000 <= diff /\ diff < 0)
                /\ getRecommendationBadge(c) = "Buy" => ~Says("Slightly undervalued by")

\* C30: a recommended contract has the Buy signal, and no contract with
\* the Avoid signal is recommended
C30_RecommendedIsBuy ==
    \A c \in Contracts :
        /\ c.isRecommended => getRecommendationBadge(c) = "Buy"
        /\ getRecommendationBadge(c) = "Avoid" => ~c.isRecommended

(***************************************************************************)
(* Claims about the cache under failing and overlapping requests           *)
(***************************************************************************)
\* C25: the step in which a call ends with a failed or rate-limited request
\* changes no entry of the cache, and such a call has stored nothing
C25_FailureKeepsCache ==
    /\ [](\A r \in Req : (Done(r) /\ reqs[r].outcome \in Failures) => ~reqs[r].stored)
    /\ [][ \A r \in Req :
             ( /\ reqs[r].pc # "done"
               /\ reqs'[r].pc = "done"
               /\ reqs'[r].outcome \in Failures )
             => cache' = cache ]_vars

\* a call was rate-limited and another failed on its status, and the entry
\* a third, overlapping call stored under the key of the first is there
C25_Witness ==
    \E r, q \in Req :
        /\ r # q
        /\ Done(r) /\ Done(q)
        /\ reqs[r].outcome \in {"rateLimit", "httpError"}
        /\ reqs[q].stored
        /\ reqs[q].key = reqs[r].key
        /\ q \in reqs[r].overlap
        /\ cache[reqs[r].key] = [data |-> reqs[q].result, timestamp |-> reqs[q].now]

\* C26: no step lowers the timestamp of an entry of the cache, whatever the
\* order in which overlapping calls end
C26_TimestampMonotonic ==
    [][ \A k \in CacheKeys :
          (cache[k] # NoEntry /\ cache'[k] # NoEntry)
          => cache'[k].timestamp >= cache[k].timestamp ]_vars

(***************************************************************************)
(* Claims about the loads of the page                                      *)
(***************************************************************************)
\* C27: a step that starts a call of the service leaves loading true; the
\* page is loading exactly while an awaited call has not been taken up; the
\* step that takes up the settled call, whatever it returned, leaves
\* loading false; and, every request settling, loading is false again
\* after it was true
C27_LoadingProtocol ==
    /\ [](page.loading <=> page.pending # 0)
    /\ [][ /\ (\E r \in Req : reqs[r].pc = "idle" /\ reqs'[r].pc # "idle")
              => (page'.loading /\ page'.pending # 0)
           /\ (page.pending # 0 /\ page'.pending = 0) => ~page'.loading ]_vars
    /\ (page.loading ~> ~page.loading)

\* the page is idle again after a load that returned null, following a
\* load that returned a chain
C27_Witness ==
    /\ page.mounted /\ ~page.loading
    /\ page.optionChain = Null
    /\ \E r, q \in Req :
          /\ q < r
          /\ Done(q) /\ reqs[q].result # Null
          /\ Done(r) /\ reqs[r].outcome \in Failures /\ reqs[r].result = Null
          /\ \A p \in Req : p > r => reqs[p].pc = "idle"

====
